---- MODULE Spec2Model ----
(***************************************************************************)
(* Natours API: the review store, its rating aggregation hooks and the    *)
(* routes that reach them.                                                 *)
(*                                                                         *)
(* Optional values (a field that may be missing, a query result that may  *)
(* be null) are sets with at most one element: {} is missing/null, {x} is *)
(* the value x.  A ratingsAverage is a reduced fraction <<num, den>>, so   *)
(* that 4.5 is <<9, 2>> and the mean of 3 and 5 is <<4, 1>>.               *)
(***************************************************************************)
EXTENDS Integers, FiniteSets, Sequences, TLC

\* Number of HTTP requests a behaviour handles (each request slot is used once).
MaxReq == 2

\* Number of requests waiting for their response at once.  (A create has its
\* response before its recomputation runs, so recomputations overlap anyway.)
MaxInFlight == 1

Slots == 1..MaxReq

\* Tour ids a client can name.  T1 exists from the start, T2 only once created.
TourIds == {"T1", "T2"}

\* Callers: two regular users, an admin, a lead guide, a guide and an
\* unauthenticated caller.
Actors == {"u1", "u2", "adm", "lg", "gd", "anon"}

Role(a) ==
  CASE a \in {"u1", "u2"} -> "user"
    [] a = "adm" -> "admin"
    [] a = "lg" -> "lead-guide"
    [] a = "gd" -> "guide"
    [] OTHER -> "none"

None == {}
Some(x) == {x}
The(o) == CHOOSE x \in o : TRUE

\* Request bodies of POST /reviews (tour: from the body or the URL): a complete
\* one, one without a review text, one without a rating and one with a rating
\* out of range.
ReviewBodies ==
  {[review |-> Some("nice"), rating |-> Some(3), tour |-> Some("T1")],
   [review |-> None, rating |-> Some(5), tour |-> Some("T1")],
   [review |-> Some("nice"), rating |-> None, tour |-> Some("T1")],
   [review |-> Some("nice"), rating |-> Some(6), tour |-> Some("T1")]}

\* Times are counted in requests: the process loads its modules at time 0 and
\* handles the request of slot p at time p.
SchemaLoadTime == 0

\* Date.now() called at time t.
DateNow(t) == t

\* createdAt: { type: Date, default: Date.now() }: the default is the value of
\* the call made while the schema object is built, the same for every document.
CreatedAtDefault == DateNow(SchemaLoadTime)

\* The reviews in the store when the behaviour starts: none, or one of tour T1.
SeedReview ==
  [id |-> 101, review |-> Some("nice"), rating |-> Some(5), tour |-> Some("T1"),
   user |-> Some("u1"), createdAt |-> CreatedAtDefault]
Seeds == {{}, {SeedReview}}

\* Ids a client can name in PATCH and DELETE /reviews/:id: a review created in
\* slot p has id p.
ReviewIds == Slots \cup {SeedReview.id}

\* Request bodies of PATCH /reviews/:id: a field that is None is not in the body.
PatchBodies ==
  {[rating |-> Some(3), tour |-> None], [rating |-> Some(5), tour |-> None]}

\* The body of a DELETE: none.
NoPatch == [rating |-> None, tour |-> None]

VARIABLES
  reviews,    \* the review collection: a set of documents
  tours,      \* the tour collection: TourIds -> document (with an exists flag)
  pc,         \* where each request is
  req,        \* the request being handled in each slot (while in flight)
  r,          \* this.r of the query: the review fetched before an update/delete
  doc,        \* whether the update/delete itself matched a review
  target,     \* the tourId calcAverageRatings was called with
  stats,      \* the result of the aggregate read
  serverUp,   \* FALSE once the process closed its server
  lastCommit, \* the request whose review mutation committed last
  rejected,   \* whether the store has rejected a recomputation's read or write
  event       \* the step just taken and the response it sent, if any

vars == <<reviews, tours, pc, req, r, doc, target, stats, serverUp, lastCommit,
          rejected, event>>

----------------------------------------------------------------------------
(* Arithmetic of averages *)

RECURSIVE GCD(_, _)
GCD(a, b) == IF b = 0 THEN a ELSE GCD(b, a % b)

\* The number n/d as a reduced fraction (n >= 0, d > 0).
Frac(n, d) == <<n \div GCD(n, d), d \div GCD(n, d)>>

RECURSIVE SumRatings(_)
SumRatings(S) ==
  IF S = {} THEN 0
  ELSE LET x == CHOOSE y \in S : TRUE
       IN The(x.rating) + SumRatings(S \ {x})

\* The tour model's default rating, also the aggregator's reset value (4.5).
DefaultAverage == Some(Frac(45, 10))

----------------------------------------------------------------------------
(* reviewSchema *)

\* review: { type: String, rerquired: [...] }: the misspelt option is not a
\* validator, so the path is optional.
ReviewTextValid(d) == TRUE

\* rating: { type: Number, min: 1, max: 5 }: checked only when a rating is given.
RatingValid(d) == d.rating = None \/ (The(d.rating) >= 1 /\ The(d.rating) <= 5)

\* tour: { ..., rerquired: [...] }: optional for the same reason.
TourRefValid(d) == TRUE

\* user: { ..., required: [true, ...] }.
UserRefValid(d) == d.user # None

ValidateReview(d) ==
  ReviewTextValid(d) /\ RatingValid(d) /\ TourRefValid(d) /\ UserRefValid(d)

\* UniqueIndexFree with the index missing.
UniqueIndexOff(revs, d) == TRUE

\* reviewSchema.index({ tour: 1, user: 1 }, { unique: true }): a missing tour is
\* indexed as null, so two documents of one user without a tour collide too.
UniqueIndexFree(revs, d) ==
  ~ \E x \in revs : x.id # d.id /\ x.tour = d.tour /\ x.user = d.user

FindById(revs, id) == {x \in revs : x.id = id}

----------------------------------------------------------------------------
(* reviewSchema.statics.calcAverageRatings *)

\* Match with a filter no review passes.
MatchNone(revs, tourId) == {}

\* $match: { tour: tourId }
Match(revs, tourId) == {x \in revs : x.tour = tourId}

\* AvgRating with $sum written for $avg.
AvgRatingSum(S) ==
  LET rated == {x \in S : x.rating # None}
  IN IF rated = {} THEN None ELSE Some(Frac(SumRatings(rated), 1))

\* $avg ignores documents without a numeric rating and is null when none has one.
AvgRating(S) ==
  LET rated == {x \in S : x.rating # None}
  IN IF rated = {} THEN None
     ELSE Some(Frac(SumRatings(rated), Cardinality(rated)))

\* The aggregate's result: no group when nothing matches, else one group.
Aggregate(revs, tourId) ==
  LET S == Match(revs, tourId)
  IN IF S = {} THEN None
     ELSE Some([nRating |-> Cardinality(S), avgRating |-> AvgRating(S)])

\* RatingsPatch with the empty case resetting the average to 0.
RatingsPatchZero(st) ==
  IF st # None
  THEN [ratingsQuantity |-> The(st).nRating, ratingsAverage |-> The(st).avgRating]
  ELSE [ratingsQuantity |-> 0, ratingsAverage |-> Some(Frac(0, 1))]

\* The update calcAverageRatings sends to the tour, from the aggregate's result.
RatingsPatch(st) ==
  IF st # None
  THEN [ratingsQuantity |-> The(st).nRating, ratingsAverage |-> The(st).avgRating]
  ELSE [ratingsQuantity |-> 0, ratingsAverage |-> DefaultAverage]

\* ApplySet with the quantity sent as an increment ($inc).
ApplyInc(t, patch) ==
  [t EXCEPT !.ratingsQuantity = @ + patch.ratingsQuantity,
            !.ratingsAverage = patch.ratingsAverage]

\* The update document { ratingsQuantity: ..., ratingsAverage: ... } has no
\* operator: both fields are set, whatever the tour held.
ApplySet(t, patch) ==
  [t EXCEPT !.ratingsQuantity = patch.ratingsQuantity,
            !.ratingsAverage = patch.ratingsAverage]

\* TourUpdateOptions with { upsert: true } passed.
TourUpdateOptionsUpsert == [upsert |-> TRUE]

\* The options of the call Tour.findByIdAndUpdate(tourId, {...}): none are
\* passed, so the update is not an upsert.
TourUpdateOptions == [upsert |-> FALSE]

\* TourFilter with an update that selects every tour.
TourFilterAll(tourId, u) == TRUE

\* The tours the update selects: the call's first argument is tourId, so the
\* filter is { _id: tourId }.
TourFilter(tourId, u) == tourId = Some(u)

\* Tour.findByIdAndUpdate(tourId, patch): nothing happens when no tour has the
\* id, unless the update is an upsert.
TourFindByIdAndUpdate(ts, tourId, patch) ==
  IF tourId # None /\ \E u \in TourIds : TourFilter(tourId, u) /\ ts[u].exists
  THEN [u \in TourIds |->
          IF TourFilter(tourId, u) /\ ts[u].exists THEN ApplySet(ts[u], patch)
          ELSE ts[u]]
  ELSE IF tourId # None /\ The(tourId) \in TourIds /\ TourUpdateOptions.upsert
  THEN [ts EXCEPT ![The(tourId)] =
          ApplySet([exists |-> TRUE, name |-> "", ratingsAverage |-> None,
                    ratingsQuantity |-> 0], patch)]
  ELSE ts

\* The tour collections the update can leave.  With an id the outcome is the
\* one of TourFindByIdAndUpdate.  With tourId undefined the filter is
\* { _id: undefined }, which, depending on the library version, matches no
\* tour or is an empty filter that matches some tour.
TourUpdateOutcomes(ts, tourId, patch) ==
  IF tourId # None THEN {TourFindByIdAndUpdate(ts, tourId, patch)}
  ELSE {ts} \cup {TourFindByIdAndUpdate(ts, Some(t), patch) : t \in TourIds}

----------------------------------------------------------------------------
(* Route middleware *)

\* authController.protect: only an authenticated caller passes.
protect(a) == Role(a) # "none"

\* authController.restrictTo(...roles): only a caller with one of the roles passes.
restrictTo(roles, a) == Role(a) \in roles

\* router.route('/').post(restrictTo('user'), ...) of the review router.
ReviewCreateRoles == {"user"}

\* router.route('/:id').patch/.delete(restrictTo('user', 'admin'), ...).
ReviewModifyRoles == {"user", "admin"}

\* router.route('/').post(protect, restrictTo('admin', 'lead-guide'), createTour).
TourCreateRoles == {"admin", "lead-guide"}

\* The status a caller stopped by protect or restrictTo gets ("" when it passes).
Gate(roles, a) ==
  IF ~ protect(a) THEN "401"
  ELSE IF ~ restrictTo(roles, a) THEN "403"
  ELSE ""

----------------------------------------------------------------------------
(* State *)

NoTour ==
  [exists |-> FALSE, name |-> "", ratingsAverage |-> None, ratingsQuantity |-> 0]

\* A tour document created without rating fields in the body.
NewTour ==
  [exists |-> TRUE, name |-> "tour", ratingsAverage |-> DefaultAverage,
   ratingsQuantity |-> 0]

\* The record of a step: which handler step ran for which request, the response
\* it sent ("" when it sent none), the caller's role, whether the step found a
\* review, whether the caller is a regular user who did not write that review,
\* and whether the step changed the reviews or the tours.  The step that routes
\* a request also records the request's method and path.
Event(step, p, kind, status, a, found, revs2, tours2) ==
  [step |-> step, slot |-> p, kind |-> kind, status |-> status,
   method |-> "", path |-> <<>>,
   role |-> Role(a), hit |-> found # None,
   byOther |-> Role(a) = "user" /\ \E x \in found : x.user # Some(a),
   reviewsChanged |-> revs2 # reviews, toursChanged |-> tours2 # tours]

\* The store is consistent at the start: T1's rating fields are those of its
\* reviews.
Init ==
  /\ reviews \in Seeds
  /\ tours = TourFindByIdAndUpdate(
                [t \in TourIds |-> IF t = "T1" THEN NewTour ELSE NoTour],
                Some("T1"), RatingsPatch(Aggregate(reviews, Some("T1"))))
  /\ pc = [p \in Slots |-> "new"]
  /\ req = [p \in Slots |-> None]
  /\ r = [p \in Slots |-> None]
  /\ doc = [p \in Slots |-> FALSE]
  /\ target = [p \in Slots |-> None]
  /\ stats = [p \in Slots |-> None]
  /\ serverUp = TRUE
  /\ lastCommit = 0
  /\ rejected = FALSE
  /\ event = [step |-> "init", slot |-> 0, kind |-> "", status |-> "",
              method |-> "", path |-> <<>>, role |-> "none", hit |-> FALSE, byOther |-> FALSE,
              reviewsChanged |-> FALSE, toursChanged |-> FALSE]

\* The requests that have not responded yet: updates and deletes under way.
InFlight == {q \in Slots : req[q] # None /\ The(req[q]).kind # "create"}

\* Requests are numbered in the order they arrive; a closed server takes none.
Arrives(p) ==
  /\ serverUp
  /\ pc[p] = "new"
  /\ \A q \in Slots : q < p => pc[q] # "new"
  /\ Cardinality(InFlight) < MaxInFlight

\* What a request keeps once its query has run: only its kind is read later.
Running(kind) ==
  Some([kind |-> kind, actor |-> "", id |-> 0, rating |-> None, tour |-> None])

\* The request is over: its locals are dropped.
Finish(p) ==
  /\ pc' = [pc EXCEPT ![p] = "done"]
  /\ req' = [req EXCEPT ![p] = None]
  /\ r' = [r EXCEPT ![p] = None]
  /\ doc' = [doc EXCEPT ![p] = FALSE]
  /\ target' = [target EXCEPT ![p] = None]
  /\ stats' = [stats EXCEPT ![p] = None]

----------------------------------------------------------------------------
(* POST /api/v1/reviews and POST /api/v1/tours/:tourId/reviews *)

\* The document Review.create builds: the user is the caller, the tour comes
\* from the body or the URL.
NewReview(p, a, body) ==
  [id |-> p, review |-> body.review, rating |-> body.rating,
   tour |-> body.tour, user |-> Some(a), createdAt |-> CreatedAtDefault]

\* What Review.create answers for a document: a validation error, a duplicate
\* key error of the unique index, or success.
CreateStatus(revs, d) ==
  IF ~ ValidateReview(d) THEN "ValidationError"
  ELSE IF ~ UniqueIndexFree(revs, d) THEN "DuplicateKey"
  ELSE "success"

\* The whole create request up to its response: the route's middleware, schema
\* validation, the unique index, the insert, and the post('save') hook, which
\* calls calcAverageRatings(this.tour) without awaiting it.
CreateReview(p, a, body) ==
  LET d == NewReview(p, a, body)
      gate == Gate(ReviewCreateRoles, a)
      status == IF gate # "" THEN gate ELSE CreateStatus(reviews, d)
  IN /\ Arrives(p)
     /\ IF status # "success"
        THEN Finish(p) /\ UNCHANGED <<reviews, lastCommit>>
        ELSE /\ reviews' = reviews \cup {d}
             /\ lastCommit' = p
             /\ pc' = [pc EXCEPT ![p] = "agg"]
             /\ req' = [req EXCEPT ![p] = Running("create")]
             /\ target' = [target EXCEPT ![p] = d.tour]
             /\ UNCHANGED <<r, doc, stats>>
     /\ event' = Event("CreateReview", p, "create", status, a,
                       IF gate # "" THEN None ELSE {d}, reviews', tours)
     /\ UNCHANGED <<tours, serverUp, rejected>>

----------------------------------------------------------------------------
(* PATCH and DELETE /api/v1/reviews/:id *)

\* The route's middleware, then reviewSchema.pre(/^findOneAnd/): the cloned
\* query's findOne() result is kept in this.r.
PreFindOneAnd(p, a, kind, id, patch) ==
  LET gate == Gate(ReviewModifyRoles, a)
  IN /\ Arrives(p)
     /\ IF gate # ""
        THEN Finish(p)
        ELSE /\ pc' = [pc EXCEPT ![p] = "exec"]
             /\ req' = [req EXCEPT ![p] = Some([kind |-> kind, actor |-> a,
                                                 id |-> id,
                                                 rating |-> patch.rating,
                                                 tour |-> patch.tour])]
             /\ r' = [r EXCEPT ![p] = FindById(reviews, id)]
             /\ UNCHANGED <<doc, target, stats>>
     /\ event' = Event("PreFindOneAnd", p, kind, gate, a,
                       IF gate # "" THEN None ELSE FindById(reviews, id),
                       reviews, tours)
     /\ UNCHANGED <<reviews, tours, serverUp, lastCommit, rejected>>

\* The document an update leaves: the fields of the body are set.
Patched(x, q) ==
  [x EXCEPT !.rating = IF q.rating = None THEN @ ELSE q.rating,
            !.tour = IF q.tour = None THEN @ ELSE q.tour]

\* Mutated with the query not executed.
MutatedNothing(revs, q) == revs

\* What findByIdAndUpdate / findByIdAndDelete leaves in the collection.
Mutated(revs, q) ==
  LET found == FindById(revs, q.id)
  IN IF q.kind = "delete" THEN revs \ found
     ELSE (revs \ found) \cup {Patched(x, q) : x \in found}

\* Whether the unique index refuses the update: the patched document would share
\* its (tour, user) pair with another one.
UpdateCollides(revs, q) ==
  /\ q.kind = "update"
  /\ \E x \in FindById(revs, q.id) : ~ UniqueIndexFree(revs, Patched(x, q))

\* Whether reviewSchema.post(/^findOneAnd/) can call calcAverageRatings:
\* this.r.constructor throws a TypeError when this.r is null.
PostHookRuns(fetched) == fetched # None

\* HookTour reading the tour from the query's result after a delete: nothing.
HookTourLost(fetched) == None

\* The tour the post hook recomputes: this.r.tour, read before the query ran.
HookTour(fetched) == The(fetched).tour

\* The query itself executes and commits, and reviewSchema.post(/^findOneAnd/)
\* runs on its result: it calls calcAverageRatings(this.r.tour), and when it
\* throws instead, its rejection is the query's error.  A query the unique
\* index refuses changes nothing and has no result for a post hook.
ExecFindOneAnd(p) ==
  /\ pc[p] = "exec"
  /\ LET q == The(req[p])
         found == FindById(reviews, q.id)
         refused == UpdateCollides(reviews, q)
     IN /\ reviews' = IF refused THEN reviews ELSE Mutated(reviews, q)
        /\ lastCommit' = IF found # None /\ ~ refused THEN p ELSE lastCommit
        /\ IF PostHookRuns(r[p]) /\ ~ refused
           THEN /\ pc' = [pc EXCEPT ![p] = "agg"]
                /\ req' = [req EXCEPT ![p] = Running(q.kind)]
                /\ doc' = [doc EXCEPT ![p] = found # None]
                /\ target' = [target EXCEPT ![p] = HookTour(r[p])]
                /\ r' = [r EXCEPT ![p] = None]
                /\ UNCHANGED stats
           ELSE Finish(p)
        /\ event' = Event("ExecFindOneAnd", p, q.kind,
                          IF refused THEN "DuplicateKey"
                          ELSE IF PostHookRuns(r[p]) THEN "" ELSE "TypeError",
                          q.actor, found, reviews', tours)
  /\ UNCHANGED <<tours, serverUp, rejected>>

----------------------------------------------------------------------------
(* calcAverageRatings, one store operation per step *)

\* await this.aggregate([...])
AggregateRead(p) ==
  /\ pc[p] = "agg"
  /\ stats' = [stats EXCEPT ![p] = Aggregate(reviews, target[p])]
  /\ pc' = [pc EXCEPT ![p] = "write"]
  /\ event' = Event("AggregateRead", p, The(req[p]).kind, "", "", None,
                    reviews, tours)
  /\ UNCHANGED <<reviews, tours, req, r, doc, target, serverUp, lastCommit,
                 rejected>>

\* Awaited with no hook awaiting calcAverageRatings.
AwaitedNever(kind) == FALSE

\* Whether the hook awaits calcAverageRatings: post(/^findOneAnd/) does,
\* post('save') does not.
Awaited(kind) == kind # "create"

\* What the caller of an update/delete is told once the hooks are through.
ModifyResponse(matched) == IF matched THEN "success" ELSE "404"

\* await Tour.findByIdAndUpdate(tourId, {...}); an update/delete responds after
\* it, a create has responded already.
TourWrite(p) ==
  /\ pc[p] = "write"
  /\ tours' \in TourUpdateOutcomes(tours, target[p], RatingsPatch(stats[p]))
  /\ Finish(p)
  /\ event' = Event("TourWrite", p, The(req[p]).kind,
                    IF Awaited(The(req[p]).kind) THEN ModifyResponse(doc[p])
                    ELSE "",
                    "", None, reviews, tours')
  /\ UNCHANGED <<reviews, serverUp, lastCommit, rejected>>

\* What the caller is told when the recomputation rejects: an awaited rejection
\* is the request's error; an un-awaited one comes after the response.
RejectionResponse(kind) == IF Awaited(kind) THEN "error" ELSE ""

\* The store rejects the aggregate or the tour update.  A rejection nothing
\* awaits reaches process.on('unhandledRejection'), which closes the server.
RecomputeRejects(p) ==
  /\ pc[p] \in {"agg", "write"}
  /\ Finish(p)
  /\ serverUp' = (serverUp /\ Awaited(The(req[p]).kind))
  /\ rejected' = TRUE
  /\ event' = Event("RecomputeRejects", p, The(req[p]).kind,
                    RejectionResponse(The(req[p]).kind), "", None, reviews, tours)
  /\ UNCHANGED <<reviews, tours, lastCommit>>

----------------------------------------------------------------------------
(* POST /api/v1/tours *)

\* The documented request body: ratingsAverage and ratingsQuantity may be given.
TourBodies ==
  {[ratingsAverage |-> None, ratingsQuantity |-> None],
   [ratingsAverage |-> Some(Frac(47, 10)), ratingsQuantity |-> Some(35)]}

\* The tour document created from a body: given fields are stored, the others
\* get the schema defaults.
TourFromBody(body) ==
  [exists |-> TRUE, name |-> NewTour.name,
   ratingsAverage |-> IF body.ratingsAverage = None THEN NewTour.ratingsAverage
                      ELSE body.ratingsAverage,
   ratingsQuantity |-> IF body.ratingsQuantity = None THEN NewTour.ratingsQuantity
                       ELSE The(body.ratingsQuantity)]

CreateTour(p, a, t, body) ==
  LET gate == Gate(TourCreateRoles, a)
      status == IF gate # "" THEN gate
                ELSE IF tours[t].exists THEN "DuplicateKey" ELSE "success"
  IN /\ Arrives(p)
     /\ tours' = IF status = "success"
                 THEN [tours EXCEPT ![t] = TourFromBody(body)]
                 ELSE tours
     /\ Finish(p)
     /\ event' = Event("CreateTour", p, "createTour", status, a, None,
                       reviews, tours')
     /\ UNCHANGED <<reviews, serverUp, lastCommit, rejected>>

----------------------------------------------------------------------------
(* PATCH and DELETE /api/v1/tours/:id, GET /api/v1/tours and /api/v1/tours/:id *)

\* TourModifyRoles with the role guide let through.
TourModifyRolesWithGuide == {"admin", "lead-guide", "guide"}

\* router.route('/:id').patch/.delete(protect, restrictTo('admin', 'lead-guide'),
\* ...).
TourModifyRoles == {"admin", "lead-guide"}

\* Names a PATCH body gives a tour.
TourPatchNames == {"renamed"}

\* What a by-id handler answers for a tour id.
TourByIdStatus(t) == IF tours[t].exists THEN "success" ELSE "404"

UpdateTour(p, a, t, name) ==
  LET gate == Gate(TourModifyRoles, a)
      status == IF gate # "" THEN gate ELSE TourByIdStatus(t)
  IN /\ Arrives(p)
     /\ tours' = IF status = "success" THEN [tours EXCEPT ![t].name = name]
                 ELSE tours
     /\ Finish(p)
     /\ event' = Event("UpdateTour", p, "updateTour", status, a, None,
                       reviews, tours')
     /\ UNCHANGED <<reviews, serverUp, lastCommit, rejected>>

DeleteTour(p, a, t) ==
  LET gate == Gate(TourModifyRoles, a)
      status == IF gate # "" THEN gate ELSE TourByIdStatus(t)
  IN /\ Arrives(p)
     /\ tours' = IF status = "success" THEN [tours EXCEPT ![t] = NoTour]
                 ELSE tours
     /\ Finish(p)
     /\ event' = Event("DeleteTour", p, "deleteTour", status, a, None,
                       reviews, tours')
     /\ UNCHANGED <<reviews, serverUp, lastCommit, rejected>>

\* TourReadGate with protect put before the handler.
TourReadGateProtect(a) == IF protect(a) THEN "" ELSE "401"

\* router.route('/').get(getAllTours) and router.route('/:id').get(getTour): the
\* handler is the only function of the chain.
TourReadGate(a) == ""

GetAllTours(p, a) ==
  /\ Arrives(p)
  /\ Finish(p)
  /\ event' = Event("GetAllTours", p, "getAllTours",
                    IF TourReadGate(a) # "" THEN TourReadGate(a) ELSE "success",
                    a, None, reviews, tours)
  /\ UNCHANGED <<reviews, tours, serverUp, lastCommit, rejected>>

GetTour(p, a, t) ==
  /\ Arrives(p)
  /\ Finish(p)
  /\ event' = Event("GetTour", p, "getTour",
                    IF TourReadGate(a) # "" THEN TourReadGate(a)
                    ELSE TourByIdStatus(t),
                    a, None, reviews, tours)
  /\ UNCHANGED <<reviews, tours, serverUp, lastCommit, rejected>>

----------------------------------------------------------------------------
(* GET /api/v1/reviews and GET /api/v1/reviews/:id *)

\* router.use(authController.protect) comes before every route of the review
\* router, the two GET routes included.
ReviewReadGate(a) == IF protect(a) THEN "" ELSE "401"

GetAllReviews(p, a) ==
  /\ Arrives(p)
  /\ Finish(p)
  /\ event' = Event("GetAllReviews", p, "getAllReviews",
                    IF ReviewReadGate(a) # "" THEN ReviewReadGate(a)
                    ELSE "success",
                    a, None, reviews, tours)
  /\ UNCHANGED <<reviews, tours, serverUp, lastCommit, rejected>>

GetReview(p, a, id) ==
  LET gate == ReviewReadGate(a)
      found == IF gate # "" THEN None ELSE FindById(reviews, id)
  IN /\ Arrives(p)
     /\ Finish(p)
     /\ event' = Event("GetReview", p, "getReview",
                       IF gate # "" THEN gate
                       ELSE IF found = None THEN "404" ELSE "success",
                       a, found, reviews, tours)
     /\ UNCHANGED <<reviews, tours, serverUp, lastCommit, rejected>>

----------------------------------------------------------------------------
(* Routing: the routers' stacks and the walk a request makes through them *)

\* A path is the sequence of its segments; a pattern segment that names a
\* parameter matches any segment.
Params == {":id", ":tourId", ":year", ":distance", ":latlng", ":unit", ":token"}

SegMatches(pat, seg) == pat \in Params \/ pat = seg

\* router.use(path, ...): the pattern matches a prefix of the path.
PrefixMatches(pat, path) ==
  /\ Len(pat) <= Len(path)
  /\ \A i \in 1..Len(pat) : SegMatches(pat[i], path[i])

\* router.route(path) / router.get(path, ...): the pattern matches the whole path.
FullMatches(pat, path) == Len(pat) = Len(path) /\ PrefixMatches(pat, path)

AllRoles == {"user", "guide", "lead-guide", "admin", "none"}

\* The middleware in front of a handler: protect (auth) and restrictTo (roles).
NoGate == [auth |-> FALSE, roles |-> AllRoles]
Protect == [auth |-> TRUE, roles |-> AllRoles]
RestrictTo(roles) == [auth |-> FALSE, roles |-> roles]
ProtectRestrictTo(roles) == [auth |-> TRUE, roles |-> roles]

GateStatus(g, a) ==
  IF g.auth /\ ~ protect(a) THEN "401"
  ELSE IF ~ restrictTo(g.roles, a) THEN "403"
  ELSE ""

\* The layers of a router's stack.
Use(g) == [type |-> "use", path |-> <<>>, gate |-> g, sub |-> "", handlers |-> {}]
Mount(path, sub) ==
  [type |-> "mount", path |-> path, gate |-> NoGate, sub |-> sub, handlers |-> {}]
Serve(path, name) ==
  [type |-> "serve", path |-> path, gate |-> NoGate, sub |-> name, handlers |-> {}]
Route(path, handlers) ==
  [type |-> "route", path |-> path, gate |-> NoGate, sub |-> "",
   handlers |-> handlers]
All(name) ==
  [type |-> "all", path |-> <<>>, gate |-> NoGate, sub |-> name, handlers |-> {}]
H(method, g, name) == [method |-> method, gate |-> g, name |-> name]

\* The review router.
reviewRouter ==
  <<Use(Protect),
    Route(<<>>, {H("GET", NoGate, "getAllReviews"),
                 H("POST", RestrictTo(ReviewCreateRoles), "createReview")}),
    Route(<<":id">>, {H("GET", NoGate, "getReview"),
                      H("PATCH", RestrictTo(ReviewModifyRoles), "updateReview"),
                      H("DELETE", RestrictTo(ReviewModifyRoles), "deleteReview")})>>

MonthlyPlanRoles == {"admin", "lead-guide", "guide"}

\* The named sub-routes of the tour router.
tourNamedRoutes ==
  <<Route(<<"top-5-cheap">>, {H("GET", NoGate, "aliasTopTtours")}),
    Route(<<"tour-stats">>, {H("GET", NoGate, "getTourStats")}),
    Route(<<"monthly-plan", ":year">>,
          {H("GET", ProtectRestrictTo(MonthlyPlanRoles), "getMonthlyPlan")}),
    Route(<<"tours-within", ":distance", "center", ":latlng", "unit", ":unit">>,
          {H("GET", NoGate, "getToursWithin")}),
    Route(<<"distances", ":latlng", "unit", ":unit">>,
          {H("GET", NoGate, "getDistances")})>>

\* The routes '/' and '/:id' of the tour router.
tourCrudRoutes ==
  <<Route(<<>>, {H("GET", NoGate, "getAllTours"),
                 H("POST", ProtectRestrictTo(TourCreateRoles), "createTour")}),
    Route(<<":id">>, {H("GET", NoGate, "getTour"),
                      H("PATCH", ProtectRestrictTo(TourModifyRoles), "updateTour"),
                      H("DELETE", ProtectRestrictTo(TourModifyRoles), "deleteTour")})>>

\* The tour router, in registration order.
tourRouter ==
  <<Mount(<<":tourId", "reviews">>, "reviewRouter")>> \o tourNamedRoutes
    \o tourCrudRoutes

UserAdminRoles == {"admin"}

\* The self-service routes of the user router.
userSelfRoutes ==
  <<Route(<<"getMe">>, {H("GET", NoGate, "getMe")}),
    Route(<<"updateMe">>, {H("PATCH", NoGate, "updateMe")}),
    Route(<<"deleteMe">>, {H("DELETE", NoGate, "deleteMe")})>>

\* The routes '/' and '/:id' of the user router.
userAdminRoutes ==
  <<Route(<<>>, {H("GET", NoGate, "gatAllUsers"),
                 H("POST", NoGate, "createUser")}),
    Route(<<":id">>, {H("GET", NoGate, "getUser"),
                      H("PATCH", NoGate, "updateUser"),
                      H("DELETE", NoGate, "deleteUser")})>>

\* userRouter with restrictTo('admin') installed before the self-service routes.
userRouterRestrictFirst ==
  <<Use(Protect), Use(RestrictTo(UserAdminRoles))>> \o userSelfRoutes
    \o userAdminRoutes

\* The user router, in registration order.
userRouter ==
  <<Use(Protect)>> \o userSelfRoutes \o <<Use(RestrictTo(UserAdminRoles))>>
    \o userAdminRoutes

\* The auth router.
authRoutes ==
  <<Route(<<"signup">>, {H("POST", NoGate, "signup")}),
    Route(<<"login">>, {H("POST", NoGate, "login")}),
    Route(<<"logout">>, {H("GET", NoGate, "logout")}),
    Route(<<"forgotPassword">>, {H("POST", NoGate, "forgotPassword")}),
    Route(<<"resetPassword", ":token">>, {H("PATCH", NoGate, "resetPassword")}),
    Use(Protect),
    Route(<<"updateMyPassword">>, {H("PATCH", NoGate, "updatePassword")})>>

\* The view router: the overview page.
viewRouter == <<Route(<<>>, {H("GET", NoGate, "getOverview")})>>

\* The routers the app mounts, in order.
appMounts ==
  <<Serve(<<"api-docs">>, "swaggerUi"),
    Mount(<<>>, "viewRouter"),
    Mount(<<"api", "v1", "auth">>, "authRoutes"),
    Mount(<<"api", "v1", "tours">>, "tourRouter"),
    Mount(<<"api", "v1", "users">>, "userRouter"),
    Mount(<<"api", "v1", "reviews">>, "reviewRouter")>>

\* app with app.all('*') registered before the routers.
appCatchAllFirst == <<All("catchAll")>> \o appMounts

\* The app's stack from its routes section on: the mounts, then app.all('*').
app == appMounts \o <<All("catchAll")>>

Stack(router) ==
  CASE router = "app" -> app
    [] router = "viewRouter" -> viewRouter
    [] router = "authRoutes" -> authRoutes
    [] router = "tourRouter" -> tourRouter
    [] router = "userRouter" -> userRouter
    [] router = "reviewRouter" -> reviewRouter

\* What ends a request: the function that answered or raised, and the status.
Answer(name, status) == [handler |-> name, status |-> status]

\* No layer of the router took the request.
Fall == Answer("", "")

\* The layers are tried in registration order from layer i on.  A gate that
\* refuses raises an error, which skips every later layer and reaches the
\* global error handler; a sub-router that takes no request hands it back; a
\* route whose path matches but which has no handler for the method passes.
RECURSIVE Walk(_, _, _, _, _)
Walk(router, i, a, method, path) ==
  IF i > Len(Stack(router)) THEN Fall
  ELSE
    LET L == Stack(router)[i]
        rest == Walk(router, i + 1, a, method, path)
    IN CASE L.type = "use" ->
              IF GateStatus(L.gate, a) # ""
              THEN Answer("globalErrorHandler", GateStatus(L.gate, a))
              ELSE rest
         [] L.type = "mount" ->
              IF ~ PrefixMatches(L.path, path) THEN rest
              ELSE LET inner == Walk(L.sub, 1, a, method,
                                     SubSeq(path, Len(L.path) + 1, Len(path)))
                   IN IF inner = Fall THEN rest ELSE inner
         [] L.type = "serve" ->
              IF PrefixMatches(L.path, path) THEN Answer(L.sub, "success")
              ELSE rest
         [] L.type = "all" -> Answer(L.sub, "404")
         [] L.type = "route" ->
              IF FullMatches(L.path, path)
                 /\ \E h \in L.handlers : h.method = method
              THEN LET h == CHOOSE h \in L.handlers : h.method = method
                   IN IF GateStatus(h.gate, a) # ""
                      THEN Answer("globalErrorHandler", GateStatus(h.gate, a))
                      ELSE Answer(h.name, "success")
              ELSE rest

Methods == {"GET", "POST", "PATCH", "DELETE"}

ApiV1 == <<"api", "v1">>

\* The paths requests name.
Paths ==
  {<<>>, <<"api-docs">>, <<"overview">>, <<"api", "v2", "tours">>}
  \cup {ApiV1 \o <<"tours">> \o suffix : suffix \in
           {<<>>, <<"T1">>, <<"top-5-cheap">>, <<"tour-stats">>,
            <<"monthly-plan", "2021">>, <<"monthly-plan", "reviews">>,
            <<"tours-within", "200", "center", "34,-118", "unit", "mi">>,
            <<"distances", "34,-118", "unit", "mi">>,
            <<"T1", "reviews">>, <<"T1", "reviews", "101">>}}
  \cup {ApiV1 \o <<"users">> \o suffix : suffix \in
           {<<>>, <<"getMe">>, <<"updateMe">>, <<"deleteMe">>, <<"7">>}}
  \cup {ApiV1 \o <<"reviews">> \o suffix : suffix \in {<<>>, <<"101">>}}
  \cup {ApiV1 \o <<"auth">> \o suffix : suffix \in
           {<<"login">>, <<"updateMyPassword">>}}

\* One request from its arrival at the routes section to its answer.
HandleRequest(p, a, method, path) ==
  LET ans == Walk("app", 1, a, method, path)
  IN /\ Arrives(p)
     /\ Finish(p)
     /\ event' = [Event("HandleRequest", p, ans.handler, ans.status, a, None,
                        reviews, tours)
                    EXCEPT !.method = method, !.path = path]
     /\ UNCHANGED <<reviews, tours, serverUp, lastCommit, rejected>>

----------------------------------------------------------------------------
(* Specifications *)

\* The review routes.
Next ==
  \E p \in Slots :
    \/ \E a \in Actors, body \in ReviewBodies : CreateReview(p, a, body)
    \/ \E a \in Actors, id \in ReviewIds, patch \in PatchBodies :
         PreFindOneAnd(p, a, "update", id, patch)
    \/ \E a \in Actors, id \in ReviewIds :
         PreFindOneAnd(p, a, "delete", id, NoPatch)
    \/ ExecFindOneAnd(p)
    \/ AggregateRead(p)
    \/ TourWrite(p)
    \/ RecomputeRejects(p)

Spec == Init /\ [][Next]_vars

\* The review routes and the tour routes.
NextTour ==
  \/ Next
  \/ \E p \in Slots, a \in Actors, t \in TourIds, body \in TourBodies :
       CreateTour(p, a, t, body)

SpecTour == Init /\ [][NextTour]_vars

\* Request bodies of POST /reviews that differ in their tour reference: no tour
\* (POST /reviews without a tour in the body) and a tour that does not exist.
RefBodies ==
  {[review |-> Some("nice"), rating |-> Some(3), tour |-> None],
   [review |-> Some("nice"), rating |-> Some(3), tour |-> Some("T2")]}

\* Request bodies of PATCH /reviews/:id that name a tour, or only a rating.
RefPatchBodies ==
  {[rating |-> None, tour |-> Some("T2")], [rating |-> Some(3), tour |-> None]}

\* The review routes, with requests that differ in their references.
NextRefs ==
  \E p \in Slots :
    \/ \E a \in Actors, body \in RefBodies : CreateReview(p, a, body)
    \/ \E a \in Actors, id \in ReviewIds, patch \in RefPatchBodies :
         PreFindOneAnd(p, a, "update", id, patch)
    \/ \E a \in Actors, id \in ReviewIds :
         PreFindOneAnd(p, a, "delete", id, NoPatch)
    \/ ExecFindOneAnd(p)
    \/ AggregateRead(p)
    \/ TourWrite(p)
    \/ RecomputeRejects(p)

SpecRefs == Init /\ [][NextRefs]_vars

\* The routes that read reviews and tours and the routes that write tours.
NextRoutes ==
  \E p \in Slots, a \in Actors :
    \/ \E t \in TourIds, body \in TourBodies : CreateTour(p, a, t, body)
    \/ \E t \in TourIds, name \in TourPatchNames : UpdateTour(p, a, t, name)
    \/ \E t \in TourIds : DeleteTour(p, a, t)
    \/ GetAllTours(p, a)
    \/ \E t \in TourIds : GetTour(p, a, t)
    \/ GetAllReviews(p, a)
    \/ \E id \in ReviewIds : GetReview(p, a, id)

SpecRoutes == Init /\ [][NextRoutes]_vars

\* The routing of requests to handlers.
NextDispatch ==
  \E p \in Slots, a \in Actors, method \in Methods, path \in Paths :
    HandleRequest(p, a, method, path)

SpecDispatch == Init /\ [][NextDispatch]_vars

----------------------------------------------------------------------------
(* What the claims are stated with *)

ReviewsOf(revs, t) == {x \in revs : x.tour = Some(t)}

RECURSIVE TotalRating(_)
TotalRating(S) ==
  IF S = {} THEN 0
  ELSE LET x == CHOOSE y \in S : TRUE
       IN (IF x.rating = None THEN 0 ELSE The(x.rating)) + TotalRating(S \ {x})

\* avg is the number total/n.
IsMean(avg, total, n) ==
  /\ avg # None
  /\ The(avg)[1] * n = The(avg)[2] * total

\* The tour document's rating fields are the count of the tour's reviews and,
\* when some review has a rating, the mean of the ratings.
Converged(tour, revs, t) ==
  LET S == ReviewsOf(revs, t)
      rated == {x \in S : x.rating # None}
  IN /\ tour.ratingsQuantity = Cardinality(S)
     /\ rated # {} => IsMean(tour.ratingsAverage, TotalRating(rated),
                             Cardinality(rated))

\* Step: request p has just written its recomputation's result to the tour.
Wrote(p) == pc[p] = "write" /\ event'.step = "TourWrite" /\ event'.slot = p

C2_NoStaleFinalValue ==
  ((\A p \in Slots : pc[p] \in {"new", "done"}) /\ ~ rejected)
    => \A t \in TourIds : tours[t].exists => Converged(tours[t], reviews, t)

\* C3: an update or delete whose pre-fetch found no review does not fail
\* because of the trigger and changes no tour.
C3_MissingReviewSkipsRecomputation ==
  [][\A p \in Slots :
       (pc[p] = "exec" /\ r[p] = None /\ pc'[p] # "exec")
         => (event'.status # "TypeError" /\ tours' = tours)]_vars

\* C4: when the store rejects a recomputation, the review mutation stays
\* committed and the caller of the create, update or delete is not told of a
\* failure.
C4_RecomputationFailureIsSwallowed ==
  [][\A p \in Slots :
       (pc[p] \in {"agg", "write"} /\ event'.step = "RecomputeRejects"
        /\ event'.slot = p)
         => (reviews' = reviews /\ event'.status # "error")]_vars

\* C5: a recomputation that found no review of its tour sets ratingsQuantity
\* to 0 and ratingsAverage to 4.5.
C5_EmptySetResetsToDefault ==
  [][\A p \in Slots, t \in TourIds :
       (Wrote(p) /\ stats[p] = None /\ target[p] = Some(t) /\ tours[t].exists)
         => /\ tours'[t].ratingsQuantity = 0
            /\ tours'[t].ratingsAverage = Some(<<9, 2>>)]_vars

\* The last review of T1 is gone and the recomputation has just reset T1.
C5_Witness ==
  /\ event.step = "TourWrite"
  /\ event.kind = "delete"
  /\ event.toursChanged
  /\ ReviewsOf(reviews, "T1") = {}
  /\ tours["T1"].ratingsQuantity = 0
  /\ tours["T1"].ratingsAverage = Some(<<9, 2>>)

\* C6: no two stored reviews share a (tour, user) pair; a create for a pair
\* that has a review fails with a duplicate key error, stores nothing, triggers
\* no recomputation and leaves the tours unchanged.
C6_OneReviewPerUserAndTour ==
  /\ \A x, y \in reviews : (x.tour = y.tour /\ x.user = y.user) => x = y
  /\ (event.step = "CreateReview" /\ event.status = "DuplicateKey")
       => /\ ~ event.reviewsChanged
          /\ ~ event.toursChanged
          /\ pc[event.slot] = "done"

\* A create has just been refused as a duplicate.
C6_Witness ==
  /\ event.step = "CreateReview"
  /\ event.status = "DuplicateKey"
  /\ reviews # {}

C8_OnlyAuthorOrAdminModifies ==
  (event.step = "ExecFindOneAnd" /\ event.byOther) => ~ event.reviewsChanged

\* C9: a tour is created with ratingsAverage 4.5 and ratingsQuantity 0 whatever
\* the request body contains.
C9_TourCreatedWithDefaults ==
  [][\A t \in TourIds :
       (~ tours[t].exists /\ tours'[t].exists)
         => /\ tours'[t].ratingsAverage = Some(<<9, 2>>)
            /\ tours'[t].ratingsQuantity = 0]_vars

\* C10: every stored review has a review text and a rating between 1 and 5, and
\* a create refused by validation stores nothing and triggers no recomputation.
C10_StoredReviewsAreValid ==
  /\ \A x \in reviews :
       /\ x.review # None
       /\ x.rating # None /\ The(x.rating) >= 1 /\ The(x.rating) <= 5
  /\ (event.step = "CreateReview" /\ event.status = "ValidationError")
       => (~ event.reviewsChanged /\ pc[event.slot] = "done")

\* C11: every stored review has a tour reference and a user reference, and a
\* create without one of them is refused and stores nothing.
C11_StoredReviewsHaveTourAndUser ==
  /\ \A x \in reviews : x.tour # None /\ x.user # None
  /\ (event.step = "CreateReview" /\ event.status = "success")
       => \A x \in FindById(reviews, event.slot) : x.tour # None

\* C12: a recomputation for a tour id that no tour document has completes
\* without an error, creates no tour document and leaves every tour and every
\* review unchanged.
C12_MissingTourIsNoOp ==
  [][\A p \in Slots, t \in TourIds :
       (Wrote(p) /\ target[p] = Some(t) /\ ~ tours[t].exists)
         => /\ tours' = tours
            /\ reviews' = reviews
            /\ pc'[p] = "done"
            /\ event'.status \notin {"error", "TypeError"}
            /\ serverUp' = serverUp]_vars

\* The recomputation of a create for tour T2, which does not exist, has just
\* completed: the review is stored, there is still no tour T2.
C12_Witness ==
  /\ event.step = "TourWrite"
  /\ event.kind = "create"
  /\ \E x \in reviews : x.id = event.slot /\ x.tour = Some("T2")
  /\ ~ tours["T2"].exists
  /\ ~ event.toursChanged
  /\ serverUp

\* One run of calcAverageRatings(tourId) with nothing in between its read and
\* its write.
Recompute(ts, revs, tourId) ==
  TourFindByIdAndUpdate(ts, tourId, RatingsPatch(Aggregate(revs, tourId)))

\* C13: when a recomputation that read the current reviews has written its
\* tour, a second run for the same tour over the same reviews leaves the tour's
\* ratingsQuantity and ratingsAverage as the first run left them.
C13_RecomputationIsIdempotent ==
  [][\A p \in Slots :
       (Wrote(p) /\ target[p] # None /\ stats[p] = Aggregate(reviews, target[p]))
         => Recompute(tours', reviews', target[p]) = tours']_vars

\* An update that set a review's rating to the value it had has just had its
\* recomputation write the tour: the run changed nothing in a tour that holds
\* one review or more.
C13_Witness ==
  /\ event.step = "TourWrite"
  /\ event.kind = "update"
  /\ event.status = "success"
  /\ ~ event.toursChanged
  /\ tours["T1"].ratingsQuantity >= 1
  /\ tours["T1"] = Recompute(tours, reviews, Some("T1"))["T1"]

\* The bookings the callers hold: u1 has booked T1, nobody else has booked.
Bookings == {<<"u1", "T1">>}

\* C14: a create stores a review only for a caller with the role user who has
\* booked the review's tour.
C14_OnlyBookedUsersReview ==
  (event.step = "CreateReview" /\ event.reviewsChanged)
    => \A x \in FindById(reviews, event.slot) :
         /\ Role(The(x.user)) = "user"
         /\ x.tour # None
         /\ <<The(x.user), The(x.tour)>> \in Bookings

\* C15: a request to create, update or delete a tour by a caller who is not an
\* authenticated admin or lead guide is answered by the middleware (401 or 403)
\* and changes no tour.
C15_OnlyAdminAndLeadGuideWriteTours ==
  (event.step \in {"CreateTour", "UpdateTour", "DeleteTour"}
   /\ event.role \notin {"admin", "lead-guide"})
    => (~ event.toursChanged /\ event.status \in {"401", "403"})

\* A guide's DELETE of the existing tour has just been refused.
C15_Witness ==
  /\ event.step = "DeleteTour"
  /\ event.role = "guide"
  /\ event.status = "403"
  /\ tours["T1"].exists

\* The time a review created by this process was inserted: the time of its
\* request.
InsertedAt(x) == x.id

\* C16: a review created without a createdAt has the time of its insertion as
\* its createdAt, so of two reviews this process inserted the one inserted
\* first has the smaller createdAt.
C16_CreatedAtIsInsertionTime ==
  /\ \A x \in reviews : x.id \in Slots => x.createdAt = DateNow(InsertedAt(x))
  /\ \A x, y \in reviews :
       (x.id \in Slots /\ y.id \in Slots /\ InsertedAt(x) < InsertedAt(y))
         => x.createdAt < y.createdAt

\* C17: no step changes the tour reference or the user reference of a stored
\* review, and the tour an update's recomputation is called with is the tour
\* the review has after the update.
C17_ReferencesNeverChange ==
  [][/\ \A x \in reviews, y \in reviews' :
          x.id = y.id => (x.tour = y.tour /\ x.user = y.user)
     /\ \A p \in Slots :
          (pc[p] = "exec" /\ pc'[p] = "agg")
            => \A y \in FindById(reviews', The(req[p]).id) :
                 target'[p] = y.tour]_vars

\* C18: a request to list the reviews or to read one review by id reaches its
\* handler whoever the caller is, logged in or not.
C18_ReviewsReadableByAll ==
  event.step \in {"GetAllReviews", "GetReview"}
    => event.status \notin {"401", "403"}

\* C19: a request to list the tours or to read one tour by id reaches its
\* handler without authentication and whatever the caller's role.
C19_ToursReadableByAll ==
  event.step \in {"GetAllTours", "GetTour"}
    => event.status \notin {"401", "403"}

\* An unauthenticated caller has just read the existing tour.
C19_Witness ==
  /\ event.step = "GetTour"
  /\ event.role = "none"
  /\ event.status = "success"

\* C20: for an update or delete by id, the lookup runs first, changes nothing
\* and records the review; the mutation then commits; the recomputation is
\* invoked only in the step after the commit, with the tour of the review the
\* lookup recorded, and reads the reviews only after that.
C20_LookupThenCommitThenRecompute ==
  [][\A p \in Slots :
       /\ (pc[p] = "new" /\ pc'[p] = "exec")
            => /\ reviews' = reviews /\ tours' = tours
               /\ r'[p] = FindById(reviews, The(req'[p]).id)
       /\ (pc[p] = "exec" /\ pc'[p] = "agg")
            => /\ r[p] # None
               /\ target'[p] = The(r[p]).tour
               /\ tours' = tours
               /\ IF The(req[p]).kind = "delete"
                  THEN FindById(reviews', The(req[p]).id) = None
                  ELSE \A y \in FindById(reviews', The(req[p]).id) :
                         The(req[p]).rating \in {None, y.rating}
       /\ (pc'[p] = "agg" /\ pc[p] # "agg" /\ The(req'[p]).kind # "create")
            => pc[p] = "exec"
       /\ (pc'[p] = "write" /\ pc[p] # "write") => pc[p] = "agg"]_vars

\* A delete has just committed: the review is gone from the store and the
\* recomputation is about to run for the tour the lookup recorded.
C20_Witness ==
  /\ event.step = "ExecFindOneAnd"
  /\ event.kind = "delete"
  /\ event.hit
  /\ event.reviewsChanged
  /\ pc[event.slot] = "agg"
  /\ target[event.slot] = Some("T1")
  /\ FindById(reviews, SeedReview.id) = None

\* C21: a create has its response when the review is stored, before its
\* recomputation has read or written anything; an update or delete of a stored
\* review has its response only in the step in which its recomputation writes
\* the tour.
C21_CreateRespondsBeforeUpdateAfter ==
  /\ (event.step = "CreateReview" /\ event.status = "success")
       => (pc[event.slot] = "agg" /\ ~ event.toursChanged
           /\ FindById(reviews, event.slot) # None)
  /\ (event.step = "TourWrite" /\ event.kind = "create") => event.status = ""
  /\ (event.step = "TourWrite" /\ event.kind \in {"update", "delete"})
       => event.status \in {"success", "404"}
  /\ (event.kind \in {"update", "delete"} /\ event.status \in {"success", "404"})
       => (event.step = "TourWrite" /\ pc[event.slot] = "done")
  /\ \A p \in Slots :
       (pc[p] \in {"exec", "agg", "write"} /\ The(req[p]).kind # "create"
        /\ event.slot = p)
         => event.status = ""

\* The create has answered, its review is stored, and tour T1 still holds the
\* count and average it had before.
C21_Witness ==
  /\ event.step = "CreateReview"
  /\ event.status = "success"
  /\ pc[event.slot] = "agg"
  /\ tours["T1"].ratingsQuantity # Cardinality(ReviewsOf(reviews, "T1"))

\* C22: a create, update or delete that succeeds triggers one recomputation,
\* for the tour the created, updated or deleted review references; one that
\* validation or the unique index refuses triggers none.
C22_OneRecomputationForTheReviewsTour ==
  [][\A p \in Slots :
       /\ (event'.step = "CreateReview" /\ event'.slot = p /\ pc[p] = "new"
           /\ event'.status = "success")
            => /\ pc'[p] = "agg"
               /\ \A y \in FindById(reviews', p) : target'[p] = y.tour
       /\ (event'.step = "ExecFindOneAnd" /\ event'.slot = p /\ pc[p] = "exec"
           /\ event'.hit /\ event'.status # "DuplicateKey")
            => /\ pc'[p] = "agg"
               /\ The(req[p]).kind = "delete"
                    => \A x \in FindById(reviews, The(req[p]).id) :
                         target'[p] = x.tour
               /\ The(req[p]).kind = "update"
                    => \A y \in FindById(reviews', The(req[p]).id) :
                         target'[p] = y.tour
       /\ (event'.slot = p /\ pc[p] \in {"new", "exec"}
           /\ event'.status \in {"ValidationError", "DuplicateKey"})
            => (pc'[p] = "done" /\ reviews' = reviews)
       /\ (pc[p] \in {"agg", "write", "done"}) => pc'[p] \notin {"new", "exec"}
       /\ pc[p] \in {"write", "done"} => pc'[p] # "agg"]_vars

C24_CreateFailureKeepsServerUp ==
  (event.step = "RecomputeRejects" /\ event.kind = "create")
    => (serverUp /\ ~ event.toursChanged /\ ~ event.reviewsChanged)

\* C25: a recomputation for tour T that finds a review computes, and then
\* writes to T, ratingsQuantity = the number of reviews whose tour is T and
\* ratingsAverage = the sum of their ratings divided by that number.
C25_CountAndMeanOfTheToursReviews ==
  [][\A p \in Slots, t \in TourIds :
       /\ (pc[p] = "agg" /\ pc'[p] = "write" /\ target[p] = Some(t)
           /\ ReviewsOf(reviews, t) # {})
            => /\ stats'[p] # None
               /\ The(stats'[p]).nRating = Cardinality(ReviewsOf(reviews, t))
               /\ IsMean(The(stats'[p]).avgRating,
                         TotalRating(ReviewsOf(reviews, t)),
                         Cardinality(ReviewsOf(reviews, t)))
       /\ (Wrote(p) /\ stats[p] # None /\ target[p] = Some(t) /\ tours[t].exists)
            => /\ tours'[t].ratingsQuantity = The(stats[p]).nRating
               /\ tours'[t].ratingsAverage = The(stats[p]).avgRating]_vars

\* C26: a recomputation for tour T changes nothing but T's ratingsQuantity and
\* ratingsAverage: its read changes nothing at all, and its write leaves every
\* other tour, T's other fields and the reviews as they were.
C26_RecomputationTouchesOnlyItsTour ==
  [][\A p \in Slots, t \in TourIds :
       /\ (pc[p] = "agg" /\ pc'[p] = "write")
            => (tours' = tours /\ reviews' = reviews)
       /\ (Wrote(p) /\ target[p] = Some(t))
            => /\ reviews' = reviews
               /\ \A u \in TourIds \ {t} : tours'[u] = tours[u]
               /\ tours'[t].exists = tours[t].exists
               /\ tours'[t].name = tours[t].name]_vars

\* Tour T2 was created with 35 ratings of average 4.7 in its body; a
\* recomputation for T1 has just changed T1 and T2 holds what it held.
C26_Witness ==
  /\ event.step = "TourWrite"
  /\ event.toursChanged
  /\ tours["T1"].name = NewTour.name
  /\ tours["T2"].exists
  /\ tours["T2"].ratingsQuantity = 35
  /\ tours["T2"].ratingsAverage = Some(<<47, 10>>)

\* lo <= the fraction f <= hi.
FracBetween(f, lo, hi) == lo * f[2] <= f[1] /\ f[1] <= hi * f[2]

\* C27: in every state each tour's ratingsQuantity is 0 or more and its
\* ratingsAverage is a number between 1 and 5, never null.
C27_AggregateFieldsInRange ==
  \A t \in TourIds :
    tours[t].exists
      => /\ tours[t].ratingsQuantity >= 0
         /\ tours[t].ratingsAverage # None
         /\ FracBetween(The(tours[t].ratingsAverage), 1, 5)

UsersPath(suffix) == ApiV1 \o <<"users">> \o suffix

\* The self-service requests and the admin requests of the user router.
UserSelfRequests ==
  {<<"GET", <<"getMe">>, "getMe">>, <<"PATCH", <<"updateMe">>, "updateMe">>,
   <<"DELETE", <<"deleteMe">>, "deleteMe">>}
UserAdminRequests ==
  {<<"GET", <<>>, "gatAllUsers">>, <<"POST", <<>>, "createUser">>,
   <<"GET", <<"7">>, "getUser">>, <<"PATCH", <<"7">>, "updateUser">>,
   <<"DELETE", <<"7">>, "deleteUser">>}

\* C28: on the user router an unauthenticated request is refused whatever it
\* names; a self-service request of an authenticated caller reaches its handler
\* whatever the caller's role; a request to list or create users or to get,
\* patch or delete a user by id reaches its handler when the caller is an admin
\* and is refused (403) for every other authenticated caller.
C28_UserRouterGates ==
  (event.step = "HandleRequest" /\ PrefixMatches(UsersPath(<<>>), event.path))
    => /\ event.role = "none" => event.status = "401"
       /\ \A q \in UserSelfRequests :
            (event.method = q[1] /\ event.path = UsersPath(q[2])
             /\ event.role # "none")
              => (event.kind = q[3] /\ event.status = "success")
       /\ \A q \in UserAdminRequests :
            (event.method = q[1] /\ event.path = UsersPath(q[2])
             /\ event.role # "none")
              => IF event.role = "admin"
                 THEN event.kind = q[3] /\ event.status = "success"
                 ELSE event.status = "403"
       /\ event.kind \in {q[3] : q \in UserAdminRequests}
            => event.role = "admin"

\* A guide has just read their own account through /getMe.
C28_Witness ==
  /\ event.step = "HandleRequest"
  /\ event.method = "GET"
  /\ event.path = UsersPath(<<"getMe">>)
  /\ event.kind = "getMe"
  /\ event.role = "guide"
  /\ event.status = "success"

ToursPath(suffix) == ApiV1 \o <<"tours">> \o suffix

\* The paths of the named sub-routes of the tour router, each with its route's
\* own handler.
TourNamedRequests ==
  {<<<<"top-5-cheap">>, "aliasTopTtours">>,
   <<<<"tour-stats">>, "getTourStats">>,
   <<<<"monthly-plan", "2021">>, "getMonthlyPlan">>,
   <<<<"monthly-plan", "reviews">>, "getMonthlyPlan">>,
   <<<<"tours-within", "200", "center", "34,-118", "unit", "mi">>,
     "getToursWithin">>,
   <<<<"distances", "34,-118", "unit", "mi">>, "getDistances">>}

\* C29: a GET for a named sub-route of the tour router is taken by that
\* sub-route (answered by its handler, or refused by its own middleware) and
\* never by a '/:id' handler; /monthly-plan/:year is answered only for an
\* authenticated admin, lead guide or guide, and for each of them.
C29_NamedTourRoutesFirst ==
  \A q \in TourNamedRequests :
    (event.step = "HandleRequest" /\ event.method = "GET"
     /\ event.path = ToursPath(q[1]))
      => /\ event.kind \notin {"getTour", "updateTour", "deleteTour"}
         /\ IF q[2] = "getMonthlyPlan"
            THEN IF event.role \in {"admin", "lead-guide", "guide"}
                 THEN event.kind = q[2] /\ event.status = "success"
                 ELSE event.status \in {"401", "403"}
            ELSE event.kind = q[2] /\ event.status = "success"

\* Whether some route of the router has the path and a handler for the method.
RECURSIVE RouteMatches(_, _, _)
RouteMatches(router, method, path) ==
  \E i \in 1..Len(Stack(router)) :
    LET L == Stack(router)[i]
    IN \/ /\ L.type = "route"
          /\ FullMatches(L.path, path)
          /\ \E h \in L.handlers : h.method = method
       \/ /\ L.type = "serve"
          /\ PrefixMatches(L.path, path)
       \/ /\ L.type = "mount"
          /\ PrefixMatches(L.path, path)
          /\ RouteMatches(L.sub, method,
                          SubSeq(path, Len(L.path) + 1, Len(path)))

\* The paths the app mounts a router or the docs on (the view router is
\* mounted on the root).
MountPaths ==
  {<<"api-docs">>, ApiV1 \o <<"auth">>, ApiV1 \o <<"tours">>,
   ApiV1 \o <<"users">>, ApiV1 \o <<"reviews">>}

====
